---------------------------- MODULE Spec2Model ----------------------------
(***************************************************************************)
(* OntoAlert: violation monitoring.  A model of                            *)
(*   - ViolationOntology.classify_violation        (src/ontology.py)        *)
(*   - ViolationDetector.detect_violations          (src/detector.py)       *)
(*   - CameraMonitor.start_monitoring               (src/camera_monitor.py) *)
(*   - BotHandler.handle_photo                      (src/bot_handler.py)    *)
(*                                                                         *)
(* Units.  Confidences are integers in 1/10000 (0.45 is 4500); the raw     *)
(* confidences the detection model reports are whole percents, so every    *)
(* product the code forms (x0.9, x0.85, x0.75, x0.8, x0.8x1.1) is exact.   *)
(* Fine amounts are integers in 1/100 of the currency unit, base fines are *)
(* whole units, so x1.5 is exact.  Pixel coordinates are integers.         *)
(***************************************************************************)
EXTENDS Integers, Sequences, FiniteSets, TLC

VARIABLES
    \* ---- ViolationOntology
    violations_db,        \* self.violations_db: type -> knowledge record
    cls_call,             \* the last classify_violation call of the test driver
    \* ---- ViolationDetector
    using_custom_model,   \* self.using_custom_model
    detection_history,    \* self.detection_history: list of per-frame detection lists
    det_call,             \* the last sequential detect_violations call and its outcome
    \* ---- CameraMonitor.start_monitoring
    mpc,                  \* where start_monitoring stands
    mexit,                \* what ended the loop
    pending,              \* the exception being propagated, or "none"
    is_running,           \* self.is_running
    cap,                  \* the cv2.VideoCapture: "none", "open", "released"
    now,                  \* wall clock, seconds
    last_detection_time,  \* local last_detection_time
    current_time,         \* local current_time
    frame,                \* local frame, as the detections the model reports for it
    frame_count,          \* local frame_count
    violations,           \* local violations
    vidx,                 \* position of the for loop over violations (1-based)
    notifier_configured,  \* TelegramNotifier has a bot and a chat id
    inflight,             \* a notification coroutine is running
    notif_log,            \* candidates of the current batch handed to the notifier
    evidence,             \* evidence files on disk: <<type, timestamp>>
    mon_calls,            \* detector invocations of this run
    call_times,           \* current_time of the last two detector invocations
    failed_sends,         \* candidates of the current frame whose delivery failed
    \* ---- BotHandler.handle_photo
    bpc,                  \* where the handler of the current update stands
    handled,              \* updates taken up so far
    processing_msg,       \* local processing_msg is set
    temp_path,            \* local temp_path: None or the path of the download
    files,                \* files present in temp_images/
    downloaded,           \* download_to_drive created the file of this request
    attempt,              \* local attempt of the running retry loop
    acq_log,              \* acquisition events of this request
    workers,              \* detect_violations calls in the executor, by request
    bexc,                 \* exception propagating in the handler, or "none"
    det_invocations,      \* detector calls submitted by this request
    bviolations,          \* local violations
    said,                 \* final messages this request sent or tried to send
    timed_out             \* the 30 s budget of this request expired

ontVars == <<violations_db, cls_call>>
detVars == <<using_custom_model, detection_history, det_call>>
monVars == <<mpc, mexit, pending, is_running, cap, now, last_detection_time,
             current_time, frame, frame_count, violations, vidx,
             notifier_configured, inflight, notif_log, evidence, mon_calls,
             call_times, failed_sends>>
botVars == <<bpc, handled, processing_msg, temp_path, files, downloaded, attempt,
             acq_log, workers, bexc, det_invocations, bviolations, said,
             timed_out>>
vars == <<ontVars, detVars, monVars, botVars>>

None == "None"
\* a confidence that is None
NoConfidence == -1

(***************************************************************************)
(* Python helpers                                                          *)
(***************************************************************************)
Min(a, b) == IF a <= b THEN a ELSE b

Abs(a) == IF a >= 0 THEN a ELSE -a

\* dict.get(key, default)
DictGet(d, key, default) == IF key \in DOMAIN d THEN d[key] ELSE default

\* [x for x in s if P(x)], order kept
RECURSIVE SelectSeqIdx(_, _, _)
SelectSeqIdx(s, keep, i) ==
    IF i > Len(s) THEN <<>>
    ELSE (IF i \in keep THEN <<s[i]>> ELSE <<>>) \o SelectSeqIdx(s, keep, i + 1)

(***************************************************************************)
(* ViolationOntology (src/ontology.py)                                     *)
(***************************************************************************)
\* The violation types of config.VIOLATION_CLASSES, and one more name that a
\* knowledge source or a caller may use.
ViolationTypes == {"smoking", "littering", "graffiti"}
AllTypes == ViolationTypes \cup {"noise"}

\* Base fines a knowledge source may give, in 1/100 of the currency unit:
\* the table of the spec's examples (smoking 500.00, graffiti 5000.00) and a
\* second table with other amounts.
FineTables_Standard == [t \in AllTypes |-> IF t = "graffiti" THEN 500000 ELSE 50000]
FineTables ==
    { FineTables_Standard,
      [t \in AllTypes |-> IF t = "smoking" THEN 150000 ELSE 30000] }

Knowledge(t, fine) ==
    [article |-> "art_" \o t, description |-> "desc_" \o t,
     fine_amount |-> fine, fine_currency |-> "RUB",
     category |-> "cat_" \o t, severity |-> "medium"]

\* _load_from_ttl: a non-empty table keyed by the local names of the source
KnowledgeBases ==
    { [t \in D |-> Knowledge(t, f[t])] :
        D \in (SUBSET AllTypes) \ {{}}, f \in FineTables }

\* Contexts: None, or a dict over these keys (each flag absent, False or True;
\* a confidence beside no flag or beside all three).
FlagKeys == {"is_repeat", "public_place", "historical_object"}
Dict(items) == [is_none |-> FALSE, items |-> items]
NoneContext == [is_none |-> TRUE, items |-> [k \in {} |-> FALSE]]
Contexts ==
    {NoneContext}
    \cup UNION { { Dict([k \in D |-> b[k]]) : b \in [D -> BOOLEAN] }
                 : D \in SUBSET FlagKeys }
    \cup UNION { { Dict([k \in D \cup {"confidence"} |->
                            IF k \in D THEN b[k] ELSE 6000]) : b \in [D -> BOOLEAN] }
                 : D \in {{}, FlagKeys} }

\* `if context:` -- None and the empty dict are falsy
Truthy(context) == ~context.is_none /\ DOMAIN context.items # {}

Locations == {None, "cam1"}

Raised(kind) == [raised |-> TRUE, error |-> kind]

\* the fine rules of classify_violation, in the order the code applies them
AdjustFineNoPublicGuard(violation_type, fine_amount, context) ==
    LET f1 == IF DictGet(context.items, "is_repeat", FALSE) THEN fine_amount * 2 ELSE fine_amount
        f2 == IF DictGet(context.items, "public_place", FALSE) THEN (f1 * 3) \div 2 ELSE f1
        f3 == IF violation_type = "graffiti" /\ DictGet(context.items, "historical_object", FALSE)
              THEN f2 * 3 ELSE f2
    IN  f3

AdjustFine(violation_type, fine_amount, context) ==
    LET f1 == IF DictGet(context.items, "is_repeat", FALSE) THEN fine_amount * 2 ELSE fine_amount
        f2 == IF DictGet(context.items, "public_place", FALSE) /\ violation_type = "smoking"
              THEN (f1 * 3) \div 2 ELSE f1
        f3 == IF violation_type = "graffiti" /\ DictGet(context.items, "historical_object", FALSE)
              THEN f2 * 3 ELSE f2
    IN  f3

\* a lookup that falls back to a default record instead of failing
LookupOrDefault(db, violation_type) ==
    IF violation_type \in DOMAIN db
    THEN [raised |-> FALSE, data |-> db[violation_type]]
    ELSE [raised |-> FALSE,
          data |-> [article |-> "", description |-> "", fine_amount |-> 0,
                    fine_currency |-> "RUB", category |-> "", severity |-> "medium"]]

\* `if violation_type not in self.violations_db: raise ValueError`
Lookup(db, violation_type) ==
    IF violation_type \in DOMAIN db
    THEN [raised |-> FALSE, data |-> db[violation_type]]
    ELSE Raised("ValueError")

classify_violation(db, violation_type, location, context) ==
    LET found == Lookup(db, violation_type)
    IN  IF found.raised THEN found
        ELSE LET violation_data == found.data
                 fine_amount ==
                     IF Truthy(context)
                     THEN AdjustFine(violation_type, violation_data.fine_amount, context)
                     ELSE violation_data.fine_amount
             IN  [raised |-> FALSE,
                  violation |->
                    [violation_type |-> violation_type,
                     article |-> violation_data.article,
                     description |-> violation_data.description,
                     fine_amount |-> fine_amount,
                     fine_currency |-> violation_data.fine_currency,
                     confidence |-> IF Truthy(context)
                                    THEN DictGet(context.items, "confidence", NoConfidence)
                                    ELSE NoConfidence,
                     location |-> location,
                     category |-> violation_data.category,
                     severity |-> violation_data.severity]]

NoClsCall == [called |-> FALSE]

OntInit ==
    /\ violations_db \in KnowledgeBases
    /\ cls_call = NoClsCall

OntIdle ==
    /\ violations_db = [t \in ViolationTypes |->
                          Knowledge(t, FineTables_Standard[t])]
    /\ cls_call = NoClsCall

\* one call of classify_violation, as test_demo.py makes them
ClassifyCall ==
    \E t \in AllTypes, loc \in Locations, ctx \in Contexts :
        /\ cls_call' = [called |-> TRUE, violation_type |-> t, location |-> loc,
                        context |-> ctx, db_before |-> violations_db,
                        result |-> classify_violation(violations_db, t, loc, ctx)]
        /\ UNCHANGED violations_db

\* `return self.violations_db.get(violation_type, {})`: the entry, or an empty
\* dict for a type that is no key
get_violation_info(db, violation_type) ==
    IF violation_type \in DOMAIN db
    THEN [raised |-> FALSE, value |-> Dict(db[violation_type])]
    ELSE [raised |-> FALSE, value |-> Dict(<<>>)]

\* one call of get_violation_info
InfoCall ==
    \E t \in AllTypes :
        /\ cls_call' = [called |-> TRUE, op |-> "get_violation_info",
                        violation_type |-> t, db_before |-> violations_db,
                        result |-> get_violation_info(violations_db, t)]
        /\ UNCHANGED violations_db

(***************************************************************************)
(* ViolationDetector (src/detector.py)                                     *)
(***************************************************************************)
\* `if len(self.detection_history) > 10`
HISTORY_LIMIT == 10

\* margin of _is_near_person and the feet region of _check_littering
NEAR_MARGIN == 50

\* One box of the model's result, normalised as detect_violations does:
\* bbox truncated to integers, center by floor division.
Detection(class_name, confidence, x1, y1, x2, y2) ==
    [class_name |-> class_name, confidence |-> confidence,
     bbox |-> <<x1, y1, x2, y2>>,
     center |-> <<(x1 + x2) \div 2, (y1 + y2) \div 2>>]

\* every detection emitted, recognised type or not
DirectViolationsUnfiltered(all_detections) ==
    [i \in 1..Len(all_detections) |->
        [type |-> all_detections[i].class_name,
         confidence |-> all_detections[i].confidence,
         bbox |-> all_detections[i].bbox]]

\* `allowed = set(self.violation_classes.keys())` and the loop over all_detections
DirectViolations(all_detections) ==
    LET keep == { i \in 1..Len(all_detections) :
                    all_detections[i].class_name \in ViolationTypes }
        hits == SelectSeqIdx(all_detections, keep, 1)
    IN  [i \in 1..Len(hits) |->
            [type |-> hits[i].class_name, confidence |-> hits[i].confidence,
             bbox |-> hits[i].bbox]]

\* no distance test at all
NearAnywhere(person_bbox, obj_center) == TRUE

_is_near_person(person_bbox, obj_center) ==
    /\ person_bbox[1] - NEAR_MARGIN <= obj_center[1]
    /\ obj_center[1] <= person_bbox[3] + NEAR_MARGIN
    /\ person_bbox[2] - NEAR_MARGIN <= obj_center[2]
    /\ obj_center[2] <= person_bbox[4] + NEAR_MARGIN

smoking_indicators == {"cell phone", "remote", "cigarette", "lighter", "cup", "bottle"}

\* the table without its ceilings
SmokingConfidenceUncapped(obj) ==
    IF obj.class_name = "cell phone" THEN (obj.confidence * 90) \div 100
    ELSE IF obj.class_name = "remote" THEN (obj.confidence * 85) \div 100
    ELSE IF obj.class_name \in {"cup", "bottle"} THEN (obj.confidence * 75) \div 100
    ELSE (obj.confidence * 90) \div 100

\* the confidence table of _check_smoking
SmokingConfidence(obj) ==
    IF obj.class_name = "cell phone" THEN Min(7500, (obj.confidence * 90) \div 100)
    ELSE IF obj.class_name = "remote" THEN Min(7000, (obj.confidence * 85) \div 100)
    ELSE IF obj.class_name \in {"cup", "bottle"} THEN Min(6500, (obj.confidence * 75) \div 100)
    ELSE Min(7500, (obj.confidence * 90) \div 100)

\* the test turned round: the lower half of the box
InLowerRegion(person, obj) ==
    2 * obj.center[2] > 2 * person.bbox[2] + (person.bbox[4] - person.bbox[2])

\* obj_center[1] < py1 + (py2 - py1) * 0.5, doubled to stay in the integers
InFaceRegion(person, obj) ==
    2 * obj.center[2] < 2 * person.bbox[2] + (person.bbox[4] - person.bbox[2])

\* the last nearby object that yields a smoking candidate
CheckSmokingLastWins(person, nearby_objects) ==
    LET ok == { i \in 1..Len(nearby_objects) :
                  /\ nearby_objects[i].class_name \in smoking_indicators
                  /\ InFaceRegion(person, nearby_objects[i])
                  /\ SmokingConfidence(nearby_objects[i]) > 4500 }
    IN  IF ok = {} THEN <<>>
        ELSE LET i == CHOOSE k \in ok : \A j \in ok : k >= j
             IN  <<[type |-> "smoking",
                    confidence |-> SmokingConfidence(nearby_objects[i]),
                    bbox |-> person.bbox]>>

\* the first nearby object, in list order, that yields a smoking candidate
_check_smoking(person, nearby_objects) ==
    LET ok == { i \in 1..Len(nearby_objects) :
                  /\ nearby_objects[i].class_name \in smoking_indicators
                  /\ InFaceRegion(person, nearby_objects[i])
                  /\ SmokingConfidence(nearby_objects[i]) > 4500 }
    IN  IF ok = {} THEN <<>>
        ELSE LET i == CHOOSE k \in ok : \A j \in ok : k <= j
             IN  <<[type |-> "smoking",
                    confidence |-> SmokingConfidence(nearby_objects[i]),
                    bbox |-> person.bbox]>>

litter_objects == {"bottle", "cup", "bowl"}

\* a scan of the whole history
WholeHistory(history, n) == history

\* self.detection_history[-3:]
LastFrames(history, n) ==
    SubSeq(history, IF Len(history) > n THEN Len(history) - n + 1 ELSE 1, Len(history))

\* the `was_before` scan over the last three history frames
WasBefore(obj, history) ==
    \E f \in 1..Len(LastFrames(history, 3)) :
        \E k \in 1..Len(LastFrames(history, 3)[f]) :
            LET o == LastFrames(history, 3)[f][k]
            IN  /\ o.class_name = obj.class_name
                /\ Abs(o.center[1] - obj.center[1]) < 100
                /\ Abs(o.center[2] - obj.center[2]) < 100

LitteringConfidence(obj, history) ==
    LET base == (obj.confidence * 80) \div 100
    IN  IF Len(history) >= 2 /\ ~WasBefore(obj, history)
        THEN Min(7500, (base * 110) \div 100)
        ELSE base

_check_littering(person, nearby_objects, history) ==
    LET ok == { i \in 1..Len(nearby_objects) :
                  /\ nearby_objects[i].class_name \in litter_objects
                  /\ nearby_objects[i].center[2] > person.bbox[4] - NEAR_MARGIN
                  /\ nearby_objects[i].confidence > 5000
                  /\ LitteringConfidence(nearby_objects[i], history) > 5000 }
    IN  IF ok = {} THEN <<>>
        ELSE LET i == CHOOSE k \in ok : \A j \in ok : k <= j
             IN  <<[type |-> "littering",
                    confidence |-> LitteringConfidence(nearby_objects[i], history),
                    bbox |-> person.bbox]>>

\* `return None`
_check_graffiti(detections) == <<>>

\* the per-person part of _analyze_detections
RECURSIVE PeopleViolations(_, _, _, _)
PeopleViolations(people, detections, history, i) ==
    IF i > Len(people) THEN <<>>
    ELSE LET person == people[i]
             near == { k \in 1..Len(detections) :
                          /\ detections[k] # person
                          /\ _is_near_person(person.bbox, detections[k].center) }
             nearby_objects == SelectSeqIdx(detections, near, 1)
         IN  _check_smoking(person, nearby_objects)
               \o _check_littering(person, nearby_objects, history)
               \o PeopleViolations(people, detections, history, i + 1)

\* every person entry taken as an actor, whatever its confidence
AnalyzeAnyPerson(detections, history) ==
    LET isPerson == { k \in 1..Len(detections) : detections[k].class_name = "person" }
        people == SelectSeqIdx(detections, isPerson, 1)
    IN  IF people = <<>> THEN <<>>
        ELSE PeopleViolations(people, detections, history, 1)
               \o _check_graffiti(detections)

_analyze_detections(detections, history) ==
    LET isPerson == { k \in 1..Len(detections) :
                        /\ detections[k].class_name = "person"
                        /\ detections[k].confidence > 3000 }
        people == SelectSeqIdx(detections, isPerson, 1)
    IN  IF people = <<>> THEN <<>>
        ELSE PeopleViolations(people, detections, history, 1)
               \o _check_graffiti(detections)

\* `self.detection_history.append(all_detections)` without the eviction
AppendHistoryNoEvict(history, all_detections) == Append(history, all_detections)

\* a full buffer that drops the frame just appended
AppendHistoryEvictNewest(history, all_detections) ==
    LET h == Append(history, all_detections)
    IN  IF Len(h) > HISTORY_LIMIT THEN SubSeq(h, 1, HISTORY_LIMIT) ELSE h

\* lines 131-133: append, then drop the head when more than 10 are held
AppendHistory(history, all_detections) ==
    LET h == Append(history, all_detections)
    IN  IF Len(h) > HISTORY_LIMIT THEN Tail(h) ELSE h

\* a call that stores the frame before the model has answered
detect_violations_StoreFirst(custom, history, all_detections, model_fails) ==
    IF model_fails
    THEN [raised |-> TRUE, error |-> "DetectionFailure", model_calls |-> 1,
          history |-> AppendHistory(history, all_detections)]
    ELSE [raised |-> FALSE, model_calls |-> 1,
          violations |-> IF custom THEN DirectViolations(all_detections)
                         ELSE _analyze_detections(all_detections, history),
          history |-> AppendHistory(history, all_detections)]

\* One detect_violations call run to its end by one thread.  model_fails is the
\* model call at line 89 raising: it is made once, outside any try or loop, so
\* the exception leaves the function before the history is touched.
detect_violations(custom, history, all_detections, model_fails) ==
    IF model_fails
    THEN [raised |-> TRUE, error |-> "DetectionFailure", model_calls |-> 1,
          history |-> history]
    ELSE [raised |-> FALSE, model_calls |-> 1,
          violations |-> IF custom THEN DirectViolations(all_detections)
                         ELSE _analyze_detections(all_detections, history),
          history |-> AppendHistory(history, all_detections)]

\* ---- frames: what the model reports for an image
Person == Detection("person", 9000, 100, 100, 300, 500)

\* generic (COCO) vocabulary
CocoFrames ==
    { <<>>,
      <<Person, Detection("cell phone", 6000, 180, 150, 220, 190)>>,
      <<Person, Detection("bottle", 7000, 180, 460, 220, 520)>> }

\* a model trained on the violation classes
CustomFrames ==
    { <<>>,
      <<Detection("smoking", 6000, 10, 10, 60, 60),
        Detection("helmet", 9000, 0, 0, 50, 50),
        Detection("smoking", 9000, 100, 10, 160, 60)>> }

FramesOf(custom) == IF custom THEN CustomFrames ELSE CocoFrames

NoDetCall == [called |-> FALSE]

DetInit ==
    /\ using_custom_model \in BOOLEAN
    /\ detection_history = <<>>
    /\ det_call = NoDetCall

DetIdle ==
    /\ using_custom_model = FALSE
    /\ detection_history = <<>>
    /\ det_call = NoDetCall

\* a caller that runs detect_violations to its end before it calls again
DetectCall ==
    \E all_detections \in FramesOf(using_custom_model), model_fails \in BOOLEAN :
        LET r == detect_violations(using_custom_model, detection_history,
                                   all_detections, model_fails)
        IN  /\ detection_history' = r.history
            /\ det_call' = [called |-> TRUE, raised |-> r.raised,
                            model_calls |-> r.model_calls,
                            violations |-> IF r.raised THEN <<>> ELSE r.violations,
                            evicted |-> ~r.raised /\ Len(detection_history) = HISTORY_LIMIT,
                            all_detections |-> IF r.raised THEN <<>> ELSE all_detections]
            /\ UNCHANGED using_custom_model

\* ---- one heuristic-mode call on a detector that has already seen some frames
\* longest history the call starts from
MaxHistory == 4

\* the actor of the scenes below; its face region ends at y = 300, its feet
\* region starts at y = 450
PhoneUp(confidence) == Detection("cell phone", confidence, 180, 150, 220, 190)
BottleAtFeet(confidence) == Detection("bottle", confidence, 180, 460, 220, 520)

\* what the generic model may report for one image
HeurFrames ==
    { <<>>,
      <<Person, PhoneUp(5000)>>,
      <<Person, PhoneUp(6000)>>,
      <<Person, PhoneUp(9000)>>,
      <<PhoneUp(6000), Person>>,
      <<Person, Detection("cell phone", 9000, 180, 380, 220, 420)>>,
      <<Person, Detection("remote", 9000, 180, 150, 220, 190)>>,
      <<Person, Detection("cup", 9000, 180, 150, 220, 190)>>,
      <<Person, Detection("cigarette", 9000, 180, 150, 220, 190)>>,
      <<Person, BottleAtFeet(6000)>>,
      <<Person, BottleAtFeet(9000)>>,
      <<Person, BottleAtFeet(9500)>>,
      \* a phone beside the box, within the margin, and one far from it
      <<Person, Detection("cell phone", 9000, 310, 150, 350, 190)>>,
      <<Person, Detection("cell phone", 9000, 580, 150, 620, 190)>>,
      \* four indicators: below the midline, too weak, and two that qualify
      <<Person, Detection("cell phone", 9000, 180, 380, 220, 420), PhoneUp(5000),
        Detection("cup", 9000, 140, 150, 180, 190), PhoneUp(9000)>>,
      <<Detection("person", 2500, 100, 100, 300, 500), PhoneUp(9000), BottleAtFeet(7000)>>,
      <<PhoneUp(9000), BottleAtFeet(7000)>>,
      \* boxes with x1 = x2 or y1 = y2, as the model can emit at a frame edge
      <<Person, Detection("cell phone", 9000, 200, 150, 200, 190)>>,
      <<Detection("person", 9000, 100, 300, 300, 300),
        Detection("cell phone", 9000, 180, 260, 220, 300)>> }

\* frames the detector may have stored earlier: nothing, a bottle where the
\* scenes have theirs, a bottle 100 px to the right, a cup at the same place
HistoryFrames ==
    { <<>>,
      <<BottleAtFeet(7000)>>,
      <<Detection("bottle", 7000, 280, 460, 320, 520)>>,
      <<Detection("cup", 7000, 180, 460, 220, 520)>> }

RECURSIVE SeqsUpTo(_, _)
SeqsUpTo(S, n) ==
    IF n = 0 THEN {<<>>}
    ELSE LET shorter == SeqsUpTo(S, n - 1)
         IN  shorter \cup { Append(h, f) : h \in { x \in shorter : Len(x) = n - 1 }, f \in S }

HeurInit ==
    /\ using_custom_model = FALSE
    /\ detection_history \in SeqsUpTo(HistoryFrames, MaxHistory)
    /\ det_call = NoDetCall

\* one detect_violations call, its input and the history it found kept
HeurCall ==
    /\ ~det_call.called
    /\ \E all_detections \in HeurFrames, model_fails \in BOOLEAN :
        LET r == detect_violations(using_custom_model, detection_history,
                                   all_detections, model_fails)
        IN  /\ detection_history' = r.history
            /\ det_call' = [called |-> TRUE, raised |-> r.raised,
                            violations |-> IF r.raised THEN <<>> ELSE r.violations,
                            model_calls |-> r.model_calls,
                            evicted |-> ~r.raised /\ Len(detection_history) = HISTORY_LIMIT,
                            all_detections |-> all_detections,
                            history_before |-> detection_history]
            /\ UNCHANGED using_custom_model

(***************************************************************************)
(* CameraMonitor (src/camera_monitor.py)                                   *)
(***************************************************************************)
\* config.DETECTION_INTERVAL
DETECTION_INTERVAL == 5

\* the clock stops here
MaxTime == 11
\* frames read in one run
MaxFrames == 3

\* what the camera shows: nothing, or a scene with two candidates
CameraFrames(custom) ==
    IF custom THEN CustomFrames
    ELSE { <<>>,
           <<Person, Detection("cell phone", 6000, 180, 150, 220, 190),
             Detection("bottle", 7000, 180, 460, 220, 520)>> }

StandardDb == [t \in ViolationTypes |-> Knowledge(t, FineTables_Standard[t])]

\* knowledge sources of a deployment: complete, or without an entry for smoking
DeployedDbs ==
    { StandardDb,
      [t \in {"littering", "graffiti"} |-> Knowledge(t, StandardDb[t].fine_amount)] }

NoTime == 0 - 1

MonInit ==
    /\ mpc = "idle"
    /\ mexit = "none"
    /\ pending = "none"
    /\ is_running = FALSE
    /\ cap = "none"
    /\ now = 0
    /\ last_detection_time = 0
    /\ current_time = 0
    /\ frame = <<>>
    /\ frame_count = 0
    /\ violations = <<>>
    /\ vidx = 0
    /\ notifier_configured \in BOOLEAN
    /\ inflight = FALSE
    /\ notif_log = <<>>
    /\ evidence = {}
    /\ mon_calls = 0
    /\ call_times = <<NoTime, NoTime>>
    /\ failed_sends = {}

MonIdle ==
    /\ mpc = "idle"
    /\ mexit = "none"
    /\ pending = "none"
    /\ is_running = FALSE
    /\ cap = "none"
    /\ now = 0
    /\ last_detection_time = 0
    /\ current_time = 0
    /\ frame = <<>>
    /\ frame_count = 0
    /\ violations = <<>>
    /\ vidx = 0
    /\ notifier_configured = FALSE
    /\ inflight = FALSE
    /\ notif_log = <<>>
    /\ evidence = {}
    /\ mon_calls = 0
    /\ call_times = <<NoTime, NoTime>>
    /\ failed_sends = {}

\* the calls the loop blocks in: cap.read(), the detector, asyncio.run
Blocking == {"loop", "detect", "notify_wait"}

\* time passes while the loop is blocked
Tick ==
    /\ mpc \in Blocking
    /\ now < MaxTime
    /\ now' = now + 1
    /\ UNCHANGED <<mpc, mexit, pending, is_running, cap, last_detection_time,
                   current_time, frame, frame_count, violations, vidx,
                   notifier_configured, inflight, notif_log, evidence, mon_calls,
                   call_times, failed_sends>>
    /\ UNCHANGED <<ontVars, detVars, botVars>>

\* lines 33-55: the camera cannot be opened -> plain return
OpenFails ==
    /\ mpc = "idle"
    /\ is_running' = TRUE
    /\ mpc' = "returned"
    /\ mexit' = "open_failed"
    /\ UNCHANGED <<pending, cap, now, last_detection_time, current_time, frame,
                   frame_count, violations, vidx, notifier_configured, inflight,
                   notif_log, evidence, mon_calls, call_times, failed_sends>>
    /\ UNCHANGED <<ontVars, detVars, botVars>>

\* lines 33-55: the camera opens
StartMonitoring ==
    /\ mpc = "idle"
    /\ is_running' = TRUE
    /\ cap' = "open"
    /\ frame_count' = 0
    /\ last_detection_time' = now
    /\ violations' = <<>>
    /\ mpc' = "loop"
    /\ UNCHANGED <<mexit, pending, now, current_time, frame, vidx,
                   notifier_configured, inflight, notif_log, evidence, mon_calls,
                   call_times, failed_sends>>
    /\ UNCHANGED <<ontVars, detVars, botVars>>

\* stop_monitoring, from whoever holds the monitor
StopMonitoring ==
    /\ is_running
    /\ is_running' = FALSE
    /\ UNCHANGED <<mpc, mexit, pending, cap, now, last_detection_time,
                   current_time, frame, frame_count, violations, vidx,
                   notifier_configured, inflight, notif_log, evidence, mon_calls,
                   call_times, failed_sends>>
    /\ UNCHANGED <<ontVars, detVars, botVars>>

\* line 58: `while self.is_running` is false
LoopExitStopped ==
    /\ mpc = "loop"
    /\ ~is_running
    /\ mpc' = "finally"
    /\ mexit' = "stopped"
    /\ UNCHANGED <<pending, is_running, cap, now, last_detection_time,
                   current_time, frame, frame_count, violations, vidx,
                   notifier_configured, inflight, notif_log, evidence, mon_calls,
                   call_times, failed_sends>>
    /\ UNCHANGED <<ontVars, detVars, botVars>>

\* lines 59-63: cap.read() gives no frame -> break
ReadFails ==
    /\ mpc = "loop"
    /\ is_running
    /\ mpc' = "finally"
    /\ mexit' = "read_failed"
    /\ UNCHANGED <<pending, is_running, cap, now, last_detection_time,
                   current_time, frame, frame_count, violations, vidx,
                   notifier_configured, inflight, notif_log, evidence, mon_calls,
                   call_times, failed_sends>>
    /\ UNCHANGED <<ontVars, detVars, botVars>>

\* line 71
IntervalElapsed(t, last) == t - last >= DETECTION_INTERVAL

\* lines 59-71: a frame is read and the interval is tested
AcquireFrame ==
    /\ mpc = "loop"
    /\ is_running
    /\ frame_count < MaxFrames
    /\ \E f \in CameraFrames(using_custom_model) : frame' = f
    /\ frame_count' = frame_count + 1
    /\ current_time' = now
    /\ mpc' = IF IntervalElapsed(now, last_detection_time) THEN "detect" ELSE "render"
    /\ failed_sends' = {}
    /\ UNCHANGED <<mexit, pending, is_running, cap, now, last_detection_time,
                   violations, vidx, notifier_configured, inflight, notif_log,
                   evidence, mon_calls, call_times>>
    /\ UNCHANGED <<ontVars, detVars, botVars>>

\* line 82 sits inside `if violations:`, so only a call that returned
\* candidates moves last_detection_time
LastDetectionAfterCall(last, t, result) == IF result # <<>> THEN t ELSE last

\* a branch taken whatever the detector returned
HasCandidatesAlways(result) == TRUE

\* line 75: `if violations:`
HasCandidates(result) == result # <<>>

\* lines 73-84: the detector call
Detect ==
    /\ mpc = "detect"
    /\ \E model_fails \in BOOLEAN :
        LET r == detect_violations(using_custom_model, detection_history, frame,
                                   model_fails)
        IN  /\ detection_history' = r.history
            /\ mon_calls' = mon_calls + 1
            /\ call_times' = <<call_times[2], current_time>>
            /\ IF r.raised
               THEN /\ pending' = r.error
                    /\ mexit' = "error"
                    /\ mpc' = "except"
                    /\ UNCHANGED <<violations, vidx, notif_log>>
               ELSE /\ violations' = r.violations
                    /\ notif_log' = <<>>
                    /\ vidx' = 1
                    /\ mpc' = IF HasCandidates(r.violations) THEN "save" ELSE "render"
                    /\ UNCHANGED <<pending, mexit>>
    /\ UNCHANGED <<is_running, cap, now, last_detection_time, current_time, frame,
                   frame_count, notifier_configured, inflight, evidence,
                   failed_sends>>
    /\ UNCHANGED <<ontVars, using_custom_model, det_call, botVars>>

\* _process_violation, lines 125-137: the evidence crop is written
SaveEvidence ==
    /\ mpc = "save"
    /\ evidence' = evidence \cup {<<violations[vidx].type, now>>}
    /\ mpc' = "classify"
    /\ UNCHANGED <<mexit, pending, is_running, cap, now, last_detection_time,
                   current_time, frame, frame_count, violations, vidx,
                   notifier_configured, inflight, notif_log, mon_calls, call_times, failed_sends>>
    /\ UNCHANGED <<ontVars, detVars, botVars>>

\* _process_violation, lines 140-146: the Fine Engine
Classify ==
    /\ mpc = "classify"
    /\ LET r == classify_violation(violations_db, violations[vidx].type, "cam1",
                  Dict([k \in {"confidence"} |-> violations[vidx].confidence]))
       IN  IF r.raised
           THEN /\ pending' = r.error
                /\ mexit' = "error"
                /\ mpc' = "except"
           ELSE /\ mpc' = "notify"
                /\ UNCHANGED <<pending, mexit>>
    /\ UNCHANGED <<is_running, cap, now, last_detection_time, current_time, frame,
                   frame_count, violations, vidx, notifier_configured, inflight,
                   notif_log, evidence, mon_calls, call_times, failed_sends>>
    /\ UNCHANGED <<ontVars, detVars, botVars>>

\* _process_violation, line 149: asyncio.run(send_violation_notification(...))
\* starts; an unconfigured notifier returns at once (telegram_bot.py:35-37)
NotifyStart ==
    /\ mpc = "notify"
    /\ notif_log' = Append(notif_log, vidx)
    /\ inflight' = notifier_configured
    /\ mpc' = "notify_wait"
    /\ UNCHANGED <<mexit, pending, is_running, cap, now, last_detection_time,
                   current_time, frame, frame_count, violations, vidx,
                   notifier_configured, evidence, mon_calls, call_times, failed_sends>>
    /\ UNCHANGED <<ontVars, detVars, botVars>>

\* a handler that lets the failure out
SwallowedNothing(exc) == FALSE

\* telegram_bot.py:63: `except Exception` around the send
SwallowedByNotifier(exc) == exc \in {"DeliveryFailure"}

\* telegram_bot.py:42-64: the send is delivered, or fails; the failure is
\* printed and the coroutine returns
NotifyDone ==
    /\ inflight
    /\ inflight' = FALSE
    /\ \E delivered \in BOOLEAN :
         IF delivered
         THEN UNCHANGED <<failed_sends, pending, mexit, mpc>>
         ELSE /\ failed_sends' = failed_sends \cup {vidx}
              /\ IF SwallowedByNotifier("DeliveryFailure")
                 THEN UNCHANGED <<pending, mexit, mpc>>
                 ELSE /\ pending' = "DeliveryFailure"
                      /\ mexit' = "error"
                      /\ mpc' = "except"
    /\ UNCHANGED <<is_running, cap, now, last_detection_time,
                   current_time, frame, frame_count, violations, vidx,
                   notifier_configured, notif_log, evidence, mon_calls, call_times>>
    /\ UNCHANGED <<ontVars, detVars, botVars>>

\* asyncio.run hands control back without waiting for the coroutine
DispatchReturnsAtOnce(running) == TRUE

\* asyncio.run returns when the coroutine has finished
DispatchReturns(running) == ~running

\* lines 79-82: _process_violation returns; next candidate, or the end of the batch
ProcessReturns ==
    /\ mpc = "notify_wait"
    /\ DispatchReturns(inflight)
    /\ IF vidx < Len(violations)
       THEN /\ vidx' = vidx + 1
            /\ mpc' = "save"
            /\ UNCHANGED last_detection_time
       ELSE /\ last_detection_time' =
                  LastDetectionAfterCall(last_detection_time, current_time, violations)
            /\ mpc' = "render"
            /\ UNCHANGED vidx
    /\ UNCHANGED <<mexit, pending, is_running, cap, now, current_time, frame,
                   frame_count, violations, notifier_configured, inflight,
                   notif_log, evidence, mon_calls, call_times, failed_sends>>
    /\ UNCHANGED <<ontVars, detVars, botVars>>

\* lines 86-106: the frame is shown; 'q' breaks the loop
Render ==
    /\ mpc = "render"
    /\ \E quit \in BOOLEAN :
         IF quit THEN mpc' = "finally" /\ mexit' = "quit"
                 ELSE mpc' = "loop" /\ UNCHANGED mexit
    /\ UNCHANGED <<pending, is_running, cap, now, last_detection_time,
                   current_time, frame, frame_count, violations, vidx,
                   notifier_configured, inflight, notif_log, evidence, mon_calls,
                   call_times, failed_sends>>
    /\ UNCHANGED <<ontVars, detVars, botVars>>

InTry == {"loop", "detect", "save", "classify", "notify", "notify_wait", "render"}

\* Ctrl-C anywhere inside the try block; a running notification is cancelled
KeyboardInterrupt ==
    /\ mpc \in InTry
    /\ pending' = "KeyboardInterrupt"
    /\ mexit' = "interrupt"
    /\ inflight' = FALSE
    /\ mpc' = "except"
    /\ UNCHANGED <<is_running, cap, now, last_detection_time, current_time, frame,
                   frame_count, violations, vidx, notifier_configured, notif_log,
                   evidence, mon_calls, call_times, failed_sends>>
    /\ UNCHANGED <<ontVars, detVars, botVars>>

\* a try statement with no except clause
CaughtNothing(exc) == FALSE

\* line 108: `except KeyboardInterrupt`
CaughtByMonitor(exc) == exc = "KeyboardInterrupt"

ExceptClause ==
    /\ mpc = "except"
    /\ pending' = IF CaughtByMonitor(pending) THEN "none" ELSE pending
    /\ mpc' = "finally"
    /\ UNCHANGED <<mexit, is_running, cap, now, last_detection_time, current_time,
                   frame, frame_count, violations, vidx, notifier_configured,
                   inflight, notif_log, evidence, mon_calls, call_times, failed_sends>>
    /\ UNCHANGED <<ontVars, detVars, botVars>>

\* lines 111-115
FinallyBlock ==
    /\ mpc = "finally"
    /\ cap' = "released"
    /\ is_running' = FALSE
    /\ mpc' = IF pending = "none" THEN "returned" ELSE "raised"
    /\ UNCHANGED <<mexit, pending, now, last_detection_time, current_time, frame,
                   frame_count, violations, vidx, notifier_configured, inflight,
                   notif_log, evidence, mon_calls, call_times, failed_sends>>
    /\ UNCHANGED <<ontVars, detVars, botVars>>

(***************************************************************************)
(* BotHandler.handle_photo (src/bot_handler.py)                            *)
(*                                                                         *)
(* Updates are handled one at a time (run() builds the Application without *)
(* concurrent updates); each detection runs in a thread of the default     *)
(* executor and goes on after its request stopped waiting for it.          *)
(***************************************************************************)
\* updates the bot receives
MaxRequests == 2

\* line 111
max_retries == 3

Requests == 1..MaxRequests

\* the temporary file of a photo: temp_images/<file_id>.jpg
PhotoPath == "temp_images/photo.jpg"

\* how a Telegram call ends: done, telegram.error.TimedOut, or another
\* NetworkError
IOOutcomes == {"ok", "TimedOut", "NetworkError"}

\* what the custom or the generic model reports for an uploaded photo
PhotoFrames(custom) ==
    IF custom
    THEN { <<>>,
           <<Detection("littering", 7000, 200, 300, 260, 360),
             Detection("smoking", 6000, 10, 10, 60, 60),
             Detection("helmet", 9000, 0, 0, 50, 50),
             Detection("smoking", 9000, 100, 10, 160, 60),
             Detection("graffiti", 8000, 300, 10, 400, 90)>> }
    ELSE { <<>>, <<Person, Detection("cell phone", 6000, 180, 150, 220, 190)>> }

NoWorker == [wpc |-> "none", dets |-> <<>>, violations |-> <<>>, raised |-> FALSE]

BotInit ==
    /\ bpc = "idle"
    /\ handled = 0
    /\ processing_msg = FALSE
    /\ temp_path = None
    /\ files = {}
    /\ downloaded = FALSE
    /\ attempt = 0
    /\ acq_log = <<>>
    /\ workers = [w \in Requests |-> NoWorker]
    /\ bexc = "none"
    /\ det_invocations = 0
    /\ bviolations = <<>>
    /\ said = {}
    /\ timed_out = FALSE

BotIdle ==
    /\ bpc = "idle"
    /\ handled = 0
    /\ processing_msg = FALSE
    /\ temp_path = None
    /\ files = {}
    /\ downloaded = FALSE
    /\ attempt = 0
    /\ acq_log = <<>>
    /\ workers = <<>>
    /\ bexc = "none"
    /\ det_invocations = 0
    /\ bviolations = <<>>
    /\ said = {}
    /\ timed_out = FALSE

\* lines 97-105: a photo update arrives; "analysing..." is sent
BeginRequest ==
    /\ bpc = "idle"
    /\ handled < MaxRequests
    /\ handled' = handled + 1
    /\ temp_path' = None
    /\ downloaded' = FALSE
    /\ attempt' = 0
    /\ acq_log' = <<>>
    /\ det_invocations' = 0
    /\ bviolations' = <<>>
    /\ said' = {}
    /\ timed_out' = FALSE
    /\ \E o \in IOOutcomes :
         IF o = "ok"
         THEN processing_msg' = TRUE /\ bexc' = "none" /\ bpc' = "get_file"
         ELSE processing_msg' = FALSE /\ bexc' = o /\ bpc' = "except"
    /\ UNCHANGED <<files, workers>>
    /\ UNCHANGED <<ontVars, detVars, monVars>>

\* `attempt < max_retries` fails one attempt later
LastAttemptOffByOne(a) == a >= max_retries

\* `attempt < max_retries - 1` is false: re-raise
LastAttempt(a) == a >= max_retries - 1

\* lines 120 and 139: the failures the retry loops catch
Transient == {"TimedOut", "ReadError", "TimeoutException"}

\* how an acquisition call ends: done; a transient failure, which the loop
\* retries; the wait_for budget expiring or another network error, which it
\* does not
AcqOutcomes == {"ok"} \cup Transient \cup {"asyncio.TimeoutError", "NetworkError"}

\* lines 113-128: one attempt of context.bot.get_file
GetFile ==
    /\ bpc = "get_file"
    /\ \E o \in AcqOutcomes :
         CASE o = "ok" ->
                /\ acq_log' = Append(acq_log, "get_file_ok")
                /\ temp_path' = PhotoPath
                /\ attempt' = 0
                /\ bpc' = "download"
                /\ UNCHANGED bexc
           [] o \in Transient ->
                /\ acq_log' = Append(acq_log, "get_file_fail")
                /\ IF LastAttempt(attempt)
                   THEN bexc' = o /\ bpc' = "except"
                   ELSE bpc' = "gf_progress" /\ UNCHANGED bexc
                /\ UNCHANGED <<temp_path, attempt>>
           [] OTHER ->
                /\ acq_log' = Append(acq_log, "get_file_err")
                /\ bexc' = o
                /\ bpc' = "except"
                /\ UNCHANGED <<temp_path, attempt>>
    /\ UNCHANGED <<handled, processing_msg, files, downloaded, workers,
                   det_invocations, bviolations, said, timed_out>>
    /\ UNCHANGED <<ontVars, detVars, monVars>>

\* lines 132-147: one attempt of file.download_to_drive; a failed attempt may
\* leave a partial file behind
Download ==
    /\ bpc = "download"
    /\ \E o \in AcqOutcomes, partial \in BOOLEAN :
         CASE o = "ok" ->
                /\ acq_log' = Append(acq_log, "download_ok")
                /\ files' = files \cup {temp_path}
                /\ downloaded' = TRUE
                /\ bpc' = "loaded_msg"
                /\ UNCHANGED bexc
           [] o \in Transient ->
                /\ acq_log' = Append(acq_log, "download_fail")
                /\ files' = IF partial THEN files \cup {temp_path} ELSE files
                /\ downloaded' = (downloaded \/ partial)
                /\ IF LastAttempt(attempt)
                   THEN bexc' = o /\ bpc' = "except"
                   ELSE bpc' = "dl_progress" /\ UNCHANGED bexc
           [] OTHER ->
                /\ acq_log' = Append(acq_log, "download_err")
                /\ files' = IF partial THEN files \cup {temp_path} ELSE files
                /\ downloaded' = (downloaded \/ partial)
                /\ bexc' = o
                /\ bpc' = "except"
    /\ UNCHANGED <<handled, processing_msg, temp_path, attempt, workers,
                   det_invocations, bviolations, said, timed_out>>
    /\ UNCHANGED <<ontVars, detVars, monVars>>

\* lines 122-125 and 141-144: the progress update before a retry
Progress ==
    /\ bpc \in {"gf_progress", "dl_progress"}
    /\ \E o \in IOOutcomes :
         IF o = "ok"
         THEN /\ acq_log' = Append(acq_log, "progress")
              /\ bpc' = IF bpc = "gf_progress" THEN "gf_sleep" ELSE "dl_sleep"
              /\ UNCHANGED bexc
         ELSE /\ bexc' = o
              /\ bpc' = "except"
              /\ UNCHANGED acq_log
    /\ UNCHANGED <<handled, processing_msg, temp_path, files, downloaded, attempt,
                   workers, det_invocations, bviolations, said, timed_out>>
    /\ UNCHANGED <<ontVars, detVars, monVars>>

\* lines 126 and 145: asyncio.sleep(2), then the next attempt
Backoff ==
    /\ bpc \in {"gf_sleep", "dl_sleep"}
    /\ acq_log' = Append(acq_log, "sleep2")
    /\ attempt' = attempt + 1
    /\ bpc' = IF bpc = "gf_sleep" THEN "get_file" ELSE "download"
    /\ UNCHANGED <<handled, processing_msg, temp_path, files, downloaded, workers,
                   bexc, det_invocations, bviolations, said, timed_out>>
    /\ UNCHANGED <<ontVars, detVars, monVars>>

\* the status edits at lines 150-153, 174-177, 180-183 and 194-197
StatusEdit ==
    /\ bpc \in {"loaded_msg", "resize_msg", "detect_msg", "result_msg"}
    /\ \E o \in IOOutcomes :
         IF o = "ok"
         THEN /\ bpc' = CASE bpc = "loaded_msg" -> "imread"
                          [] bpc = "resize_msg" -> "detect_msg"
                          [] bpc = "detect_msg" -> "submit"
                          [] OTHER -> "report"
              /\ UNCHANGED bexc
         ELSE bexc' = o /\ bpc' = "except"
    /\ UNCHANGED <<handled, processing_msg, temp_path, files, downloaded, attempt,
                   acq_log, workers, det_invocations, bviolations, said, timed_out>>
    /\ UNCHANGED <<ontVars, detVars, monVars>>

\* lines 156-173: cv2.imread, and the resize of an image over 1280 px
Imread ==
    /\ bpc = "imread"
    /\ \E decoded \in BOOLEAN, large \in BOOLEAN :
         bpc' = IF ~decoded THEN "decode_error"
                ELSE IF large THEN "resize_msg" ELSE "detect_msg"
    /\ UNCHANGED <<handled, processing_msg, temp_path, files, downloaded, attempt,
                   acq_log, workers, bexc, det_invocations, bviolations, said, timed_out>>
    /\ UNCHANGED <<ontVars, detVars, monVars>>

\* lines 158-164: the image is None
DecodeError ==
    /\ bpc = "decode_error"
    /\ said' = said \cup {"decode_error"}
    /\ \E o \in IOOutcomes :
         IF o = "ok"
         THEN /\ files' = files \ {temp_path}
              /\ bpc' = "finally"
              /\ UNCHANGED bexc
         ELSE /\ bexc' = o
              /\ bpc' = "except"
              /\ UNCHANGED files
    /\ UNCHANGED <<handled, processing_msg, temp_path, downloaded, attempt,
                   acq_log, workers, det_invocations, bviolations, timed_out>>
    /\ UNCHANGED <<ontVars, detVars, monVars>>

\* lines 187-191: loop.run_in_executor(None, self.detector.detect_violations, ...)
Submit ==
    /\ bpc = "submit"
    /\ det_invocations' = det_invocations + 1
    /\ \E f \in PhotoFrames(using_custom_model) :
         workers' = [workers EXCEPT ![handled] =
                        [wpc |-> "model", dets |-> f, violations |-> <<>>,
                         raised |-> FALSE]]
    /\ bpc' = "await"
    /\ UNCHANGED <<handled, processing_msg, temp_path, files, downloaded, attempt,
                   acq_log, bexc, bviolations, said, timed_out>>
    /\ UNCHANGED <<ontVars, detVars, monVars>>

\* the worker finished inside the budget: its result or its exception
AwaitResult ==
    /\ bpc = "await"
    /\ workers[handled].wpc = "done"
    /\ IF workers[handled].raised
       THEN bexc' = "DetectionFailure" /\ bpc' = "except" /\ UNCHANGED bviolations
       ELSE /\ bviolations' = workers[handled].violations
            /\ bpc' = "result_msg"
            /\ UNCHANGED bexc
    /\ UNCHANGED <<handled, processing_msg, temp_path, files, downloaded, attempt,
                   acq_log, workers, det_invocations, said, timed_out>>
    /\ UNCHANGED <<ontVars, detVars, monVars>>

\* a wait that goes on past its budget
AfterBudgetKeepWaiting == "await"

\* asyncio.wait_for raises TimeoutError in the handler
AfterBudget == "except"

\* line 190: the 30 s pass before the worker is done; the worker is not stopped
AwaitTimeout ==
    /\ bpc = "await"
    /\ workers[handled].wpc # "done"
    /\ timed_out' = TRUE
    /\ bexc' = "asyncio.TimeoutError"
    /\ bpc' = AfterBudget
    /\ UNCHANGED <<handled, processing_msg, temp_path, files, downloaded, attempt,
                   acq_log, workers, det_invocations, bviolations, said>>
    /\ UNCHANGED <<ontVars, detVars, monVars>>

\* lines 201-206: best confidence per type, types in first-seen order
RECURSIVE BestByType(_, _, _)
BestByType(vs, i, acc) ==
    IF i > Len(vs) THEN acc
    ELSE LET t == vs[i].type
             c == vs[i].confidence
             at == { k \in 1..Len(acc) : acc[k].type = t }
         IN  IF at = {} THEN BestByType(vs, i + 1, Append(acc, [type |-> t, confidence |-> c]))
             ELSE LET k == CHOOSE x \in at : TRUE
                  IN  IF c > acc[k].confidence
                      THEN BestByType(vs, i + 1, [acc EXCEPT ![k].confidence = c])
                      ELSE BestByType(vs, i + 1, acc)

\* the items left in insertion order
Unsorted(items, i, acc) == items

\* sorted(..., key=confidence, reverse=True): stable, equal keys keep their order
RECURSIVE SortedDesc(_, _, _)
SortedDesc(items, i, acc) ==
    IF i > Len(items) THEN acc
    ELSE LET before == { k \in 1..Len(acc) : acc[k].confidence >= items[i].confidence }
             n == Cardinality(before)
         IN  SortedDesc(items, i + 1,
                        SubSeq(acc, 1, n) \o <<items[i]>> \o SubSeq(acc, n + 1, Len(acc)))

\* line 209: `ordered`
Ordered(vs) ==
    LET sorted == SortedDesc(BestByType(vs, 1, <<>>), 1, <<>>)
    IN  SubSeq(sorted, 1, Min(3, Len(sorted)))

\* lines 199-229 and 241-248: the lines of the report are built through the
\* Fine Engine and the result is edited into the status message
Report ==
    /\ bpc = "report"
    /\ IF bviolations # <<>>
       THEN IF \E k \in 1..Len(Ordered(bviolations)) :
                  classify_violation(violations_db, Ordered(bviolations)[k].type, "upload",
                      Dict([x \in {"confidence"} |-> Ordered(bviolations)[k].confidence])).raised
            THEN /\ bexc' = "ValueError"
                 /\ bpc' = "except"
                 /\ UNCHANGED said
            ELSE /\ said' = said \cup {"report"}
                 /\ \E o \in IOOutcomes :
                      CASE o = "ok" -> bpc' = "unlink" /\ UNCHANGED bexc
                        [] o = "TimedOut" -> bpc' = "report_reply" /\ UNCHANGED bexc
                        [] OTHER -> bexc' = o /\ bpc' = "except"
       ELSE /\ said' = said \cup {"no_violations"}
            /\ \E o \in IOOutcomes :
                 \* lines 249-256: after TimedOut a reply is tried, its
                 \* failure swallowed
                 CASE o \in {"ok", "TimedOut"} -> bpc' = "unlink" /\ UNCHANGED bexc
                   [] OTHER -> bexc' = o /\ bpc' = "except"
    /\ UNCHANGED <<handled, processing_msg, temp_path, files, downloaded, attempt,
                   acq_log, workers, det_invocations, bviolations, timed_out>>
    /\ UNCHANGED <<ontVars, detVars, monVars>>

\* lines 230-240: the report is sent as a new message, else a short notice,
\* whose failure propagates
ReportReply ==
    /\ bpc = "report_reply"
    /\ \E reply_ok \in BOOLEAN, o \in IOOutcomes :
         IF reply_ok
         THEN /\ bpc' = "unlink"
              /\ UNCHANGED <<bexc, said>>
         ELSE /\ said' = said \cup {"report_notice"}
              /\ IF o = "ok"
                 THEN bpc' = "unlink" /\ UNCHANGED bexc
                 ELSE bexc' = o /\ bpc' = "except"
    /\ UNCHANGED <<handled, processing_msg, temp_path, files, downloaded, attempt,
                   acq_log, workers, det_invocations, bviolations, timed_out>>
    /\ UNCHANGED <<ontVars, detVars, monVars>>

\* line 259
Unlink ==
    /\ bpc = "unlink"
    /\ files' = files \ {temp_path}
    /\ bpc' = "finally"
    /\ UNCHANGED <<handled, processing_msg, temp_path, downloaded, attempt, acq_log,
                   workers, bexc, det_invocations, bviolations, said, timed_out>>
    /\ UNCHANGED <<ontVars, detVars, monVars>>

\* the except clauses at lines 261, 296 and 324, in that order
ExceptKind(exc) ==
    IF exc \in {"asyncio.TimeoutError", "TimedOut", "ReadError", "TimeoutException"}
    THEN "timeout"
    ELSE IF exc \in {"NetworkError", "ConnectError"} THEN "network"
    ELSE "error"

\* lines 261-340: the error message is tried (edit, then reply); failures of
\* the sends are swallowed
Except ==
    /\ bpc = "except"
    /\ said' = said \cup {ExceptKind(bexc)}
    /\ bexc' = "none"
    /\ bpc' = "finally"
    /\ UNCHANGED <<handled, processing_msg, temp_path, files, downloaded, attempt,
                   acq_log, workers, det_invocations, bviolations, timed_out>>
    /\ UNCHANGED <<ontVars, detVars, monVars>>

\* a finally block that leaves the file alone
FinallyNoCleanup(fs, path) == fs

\* lines 344-348
FinallyCleanup(fs, path) == IF path # None /\ path \in fs THEN fs \ {path} ELSE fs

\* lines 342-348: the handler returns
Finally ==
    /\ bpc = "finally"
    /\ files' = FinallyCleanup(files, temp_path)
    /\ bpc' = "idle"
    /\ UNCHANGED <<handled, processing_msg, temp_path, downloaded, attempt, acq_log,
                   workers, bexc, det_invocations, bviolations, said, timed_out>>
    /\ UNCHANGED <<ontVars, detVars, monVars>>

\* ---- detect_violations in an executor thread, statement by statement
WorkerStep(w, next) ==
    /\ workers' = [workers EXCEPT ![w] = next]
    /\ UNCHANGED <<bpc, handled, processing_msg, temp_path, files, downloaded,
                   attempt, acq_log, bexc, det_invocations, bviolations, said, timed_out>>
    /\ UNCHANGED <<ontVars, monVars, using_custom_model, det_call>>

\* lines 89-107: the model runs, or raises
WorkerModel ==
    \E w \in Requests :
        /\ workers[w].wpc = "model"
        /\ \E model_fails \in BOOLEAN :
             WorkerStep(w, IF model_fails
                           THEN [workers[w] EXCEPT !.wpc = "done", !.raised = TRUE]
                           ELSE [workers[w] EXCEPT !.wpc = "analyze"])
        /\ UNCHANGED detection_history

\* lines 116-128: the candidates; the heuristics read the shared history
WorkerAnalyze ==
    \E w \in Requests :
        /\ workers[w].wpc = "analyze"
        /\ WorkerStep(w, [workers[w] EXCEPT
                            !.wpc = "append",
                            !.violations =
                                IF using_custom_model
                                THEN DirectViolations(workers[w].dets)
                                ELSE _analyze_detections(workers[w].dets,
                                                         detection_history)])
        /\ UNCHANGED detection_history

\* line 131
WorkerAppend ==
    \E w \in Requests :
        /\ workers[w].wpc = "append"
        /\ detection_history' = Append(detection_history, workers[w].dets)
        /\ WorkerStep(w, [workers[w] EXCEPT !.wpc = "check"])

\* a test that lets one frame more through
OverLimitByTwo(history) == Len(history) > HISTORY_LIMIT + 1

\* line 132: `len(self.detection_history) > 10`
OverLimit(history) == Len(history) > HISTORY_LIMIT

\* line 132
WorkerCheck ==
    \E w \in Requests :
        /\ workers[w].wpc = "check"
        /\ WorkerStep(w, [workers[w] EXCEPT
                            !.wpc = IF OverLimit(detection_history)
                                    THEN "pop" ELSE "done"])
        /\ UNCHANGED detection_history

\* line 133
WorkerPop ==
    \E w \in Requests :
        /\ workers[w].wpc = "pop"
        /\ detection_history' = Tail(detection_history)
        /\ WorkerStep(w, [workers[w] EXCEPT !.wpc = "done"])

(***************************************************************************)
(* Specifications                                                          *)
(***************************************************************************)
\* the ontology alone, driven as test_demo.py drives it
OntNext == ClassifyCall /\ UNCHANGED <<detVars, monVars, botVars>>
InitOnt == OntInit /\ DetIdle /\ MonIdle /\ BotIdle
SpecOnt == InitOnt /\ [][OntNext]_vars

\* one detector called sequentially
\* both lookups of the knowledge base
LookupNext ==
    \/ ClassifyCall /\ UNCHANGED <<detVars, monVars, botVars>>
    \/ InfoCall /\ UNCHANGED <<detVars, monVars, botVars>>

SpecLookup == InitOnt /\ [][LookupNext]_vars

DetNext == DetectCall /\ UNCHANGED <<ontVars, monVars, botVars>>
InitDet == DetInit /\ OntIdle /\ MonIdle /\ BotIdle
SpecDet == InitDet /\ [][DetNext]_vars

\* one run of start_monitoring, with the clock and stop_monitoring beside it
InitMon ==
    /\ MonInit
    /\ BotIdle
    /\ using_custom_model \in BOOLEAN
    /\ detection_history = <<>>
    /\ det_call = NoDetCall
    /\ violations_db \in DeployedDbs
    /\ cls_call = NoClsCall

MonNext ==
    \/ Tick
    \/ OpenFails
    \/ StartMonitoring
    \/ StopMonitoring
    \/ LoopExitStopped
    \/ ReadFails
    \/ AcquireFrame
    \/ Detect
    \/ SaveEvidence
    \/ Classify
    \/ NotifyStart
    \/ NotifyDone
    \/ ProcessReturns
    \/ Render
    \/ KeyboardInterrupt
    \/ ExceptClause
    \/ FinallyBlock

SpecMon == InitMon /\ [][MonNext]_vars

\* one heuristic call per behaviour, from every stored history
InitHeur == HeurInit /\ OntIdle /\ MonIdle /\ BotIdle

HeurNext == HeurCall /\ UNCHANGED <<ontVars, monVars, botVars>>

SpecHeur == InitHeur /\ [][HeurNext]_vars

\* the bot: updates handled one after another, executor threads beside them;
\* the detector may have served ten earlier requests
InitBot ==
    /\ BotInit
    /\ MonIdle
    /\ using_custom_model \in BOOLEAN
    /\ detection_history \in {<<>>, [i \in 1..HISTORY_LIMIT |-> <<>>]}
    /\ det_call = NoDetCall
    /\ violations_db \in DeployedDbs
    /\ cls_call = NoClsCall

BotNext ==
    \/ BeginRequest
    \/ GetFile
    \/ Download
    \/ Progress
    \/ Backoff
    \/ StatusEdit
    \/ Imread
    \/ DecodeError
    \/ Submit
    \/ AwaitResult
    \/ AwaitTimeout
    \/ Report
    \/ ReportReply
    \/ Unlink
    \/ Except
    \/ Finally
    \/ WorkerModel
    \/ WorkerAnalyze
    \/ WorkerAppend
    \/ WorkerCheck
    \/ WorkerPop

SpecBot == InitBot /\ [][BotNext]_vars

(***************************************************************************)
(* Properties                                                              *)
(***************************************************************************)
\* C2: after any number of sequential detect_violations calls on one detector,
\* in direct or heuristic mode and whatever each call returned (candidates,
\* none, or an error), detection_history holds at most 10 frames.
C2_HistoryAtMostTen == Len(detection_history) <= 10

\* a call that found the buffer full and evicted its head
C2_Witness ==
    /\ det_call.called
    /\ det_call.evicted
    /\ Len(detection_history) = 10

\* C9: classify_violation with a type that is no key of the knowledge base
\* raises ValueError for every location and context, returns no Violation, and
\* leaves the knowledge base as it was.
C9_UnknownTypeRaises ==
    (cls_call.called /\ cls_call.violation_type \notin DOMAIN cls_call.db_before)
        => /\ cls_call.result.raised
           /\ cls_call.result.error = "ValueError"
           /\ violations_db = cls_call.db_before

C9_Witness ==
    /\ cls_call.called
    /\ cls_call.violation_type \notin DOMAIN violations_db
    /\ Truthy(cls_call.context)
    /\ DictGet(cls_call.context.items, "is_repeat", FALSE)
    /\ cls_call.location # None

Flag(context, key) == DictGet(context.items, key, FALSE)

\* C21: a lookup of a type that is no key of the knowledge base fails with an
\* error, through get_violation_info as well as through classify_violation.
C21_UnknownLookupFails ==
    (cls_call.called /\ cls_call.violation_type \notin DOMAIN cls_call.db_before)
        => cls_call.result.raised

\* C10: for a known type the fine is base x2 (repeat) x1.5 (public place, smoking
\* only) x3 (historical object, graffiti only), and the base fine when no flag
\* applies.  Stated on twice the fine so that x1.5 stays in the integers; the
\* spec's three examples are the last conjuncts.
C10_FineRules ==
    (cls_call.called /\ cls_call.violation_type \in DOMAIN cls_call.db_before)
        => LET t == cls_call.violation_type
               c == cls_call.context
               base == cls_call.db_before[t].fine_amount
               fine == cls_call.result.violation.fine_amount
           IN  /\ ~cls_call.result.raised
               /\ 2 * fine =
                    base * (IF Flag(c, "is_repeat") THEN 2 ELSE 1)
                         * (IF Flag(c, "public_place") /\ t = "smoking" THEN 3 ELSE 2)
                         * (IF Flag(c, "historical_object") /\ t = "graffiti" THEN 3 ELSE 1)
               /\ (~Flag(c, "is_repeat") /\ ~(Flag(c, "public_place") /\ t = "smoking")
                     /\ ~(Flag(c, "historical_object") /\ t = "graffiti"))
                    => fine = base
               /\ (t = "smoking" /\ base = 50000 /\ c = Dict([k \in {"public_place"} |-> TRUE]))
                    => fine = 75000
               /\ (t = "smoking" /\ base = 50000
                     /\ c = Dict([k \in {"is_repeat", "public_place"} |-> TRUE]))
                    => fine = 150000
               /\ (t = "graffiti" /\ base = 500000
                     /\ c = Dict([k \in {"historical_object"} |-> TRUE]))
                    => fine = 1500000

\* smoking at base 500.00, repeated and in a public place: 1500.00
C10_Witness ==
    /\ cls_call.called
    /\ cls_call.violation_type = "smoking"
    /\ ~cls_call.result.raised
    /\ Flag(cls_call.context, "is_repeat")
    /\ Flag(cls_call.context, "public_place")
    /\ cls_call.db_before["smoking"].fine_amount = 50000
    /\ cls_call.result.violation.fine_amount = 150000

\* C1: any two consecutive detector invocations of one run of the loop are at
\* least detection_interval seconds apart, also when the earlier one returned
\* no candidates.
C1_MinIntervalBetweenCalls ==
    call_times[1] # NoTime => call_times[2] - call_times[1] >= DETECTION_INTERVAL

\* <<1, ..., n>>
Iota(n) == [i \in 1..n |-> i]

OutsideBatch == {"loop", "render", "except", "finally", "returned", "raised"}

\* C5 as claimed: candidates are processed one after another in list order, no
\* notification is running when the next candidate or the next frame is taken
\* up, and once the loop has left a batch every candidate the detector returned
\* has been handed to the notifier exactly once.
C5_EveryCandidateNotifiedOnce ==
    /\ mpc \in {"save", "classify", "notify"} => (notif_log = Iota(vidx - 1) /\ ~inflight)
    /\ mpc \in OutsideBatch => (notif_log = Iota(Len(violations)) /\ ~inflight)

\* C5 as amended: strictly one after another in list order and never twice; all
\* of them exactly once by the time the loop renders the frame or reads the next
\* one.  A run that an interrupt or an exception ends inside the batch leaves
\* the remaining candidates unnotified.
C5_NotifiedInOrderAtMostOnce ==
    /\ mpc \in {"save", "classify", "notify"} => (notif_log = Iota(vidx - 1) /\ ~inflight)
    /\ mpc = "notify_wait" => notif_log = Iota(vidx)
    /\ inflight => mpc = "notify_wait"
    /\ notif_log = Iota(Len(notif_log))
    /\ Len(notif_log) <= Len(violations)
    /\ mpc \in {"loop", "render"} => notif_log = Iota(Len(violations))

\* a later iteration that skipped detection renders the two candidates of the
\* one detector call, each notified once
C5_Witness ==
    /\ mpc = "render"
    /\ notifier_configured
    /\ mon_calls = 1
    /\ frame_count = 3
    /\ Len(violations) = 2
    /\ notif_log = <<1, 2>>

GracefulExits == {"stopped", "quit", "read_failed", "interrupt"}
Terminated == mpc \in {"returned", "raised"}

\* C6: stop flag, quit key, failed read and keyboard interrupt each end
\* start_monitoring by a normal return with the capture released and
\* is_running false; once it has ended there is no further detector call and
\* no further notification.
C6_GracefulTermination ==
    /\ []((Terminated /\ mexit \in GracefulExits)
            => (mpc = "returned" /\ pending = "none" /\ cap = "released" /\ ~is_running))
    /\ [][Terminated => (/\ mpc' = mpc
                         /\ mon_calls' = mon_calls
                         /\ notif_log' = notif_log
                         /\ detection_history' = detection_history
                         /\ ~inflight')]_vars

\* Ctrl-C while the second candidate's notification was being sent
C6_Witness ==
    /\ mpc = "returned"
    /\ mexit = "interrupt"
    /\ cap = "released"
    /\ mon_calls = 1
    /\ notif_log = <<1, 2>>
    /\ vidx = 2


\* C16: a failed delivery is swallowed by send_violation_notification: the
\* step in which it fails raises nothing, leaves is_running alone and hands
\* control back to _process_violation; from there the loop takes the next
\* candidate of the batch, or ends the batch and goes on with the frame.
C16_DeliveryFailureIsSwallowed ==
    /\ [](pending # "DeliveryFailure")
    /\ [][(failed_sends' # failed_sends /\ failed_sends' # {})
             => /\ pending' = "none"
                /\ is_running' = is_running
                /\ mpc' = "notify_wait"
                /\ ~inflight']_vars
    /\ [][(mpc = "notify_wait" /\ ~inflight /\ mpc' \notin {"notify_wait", "except"})
             => IF vidx < Len(violations)
                THEN mpc' = "save" /\ vidx' = vidx + 1
                ELSE mpc' = "render"]_vars

\* the delivery for the first candidate failed, the second candidate was
\* notified, and the loop, still running, has gone on with the frame
C16_Witness ==
    /\ failed_sends = {1}
    /\ notif_log = <<1, 2>>
    /\ mpc = "render"
    /\ is_running
    /\ pending = "none"

\* the states of _process_violation
Processing == {"save", "classify", "notify", "notify_wait"}

\* C20: a frame for which the model reports no detections gives an empty
\* candidate list without an error, in both modes and on any history, and the
\* monitor never enters _process_violation for it: no evidence file, no Fine
\* Engine call, no notification.
C20_NoDetectionsNoProcessing ==
    /\ [](/\ ~detect_violations(using_custom_model, detection_history, <<>>, FALSE).raised
          /\ detect_violations(using_custom_model, detection_history, <<>>, FALSE).violations
                = <<>>
          /\ frame = <<>> => mpc \notin Processing)
    /\ [][(mpc = "detect" /\ frame = <<>> /\ mpc' # "detect" /\ pending' = "none")
             => /\ violations' = <<>>
                /\ mpc' = "render"
                /\ evidence' = evidence
                /\ notif_log' = <<>>
                /\ cls_call' = cls_call]_vars

\* the detector ran on an empty frame after an earlier frame had left evidence
C20_Witness ==
    /\ frame = <<>>
    /\ mpc = "render"
    /\ mon_calls = 2
    /\ call_times[2] = current_time
    /\ violations = <<>>
    /\ evidence # {}
    /\ pending = "none"

\* C27: whenever start_monitoring has returned or raised, by any path, the
\* running flag is false.
C27_NotRunningAfterReturn ==
    mpc \in {"returned", "raised"} => ~is_running

\* C28: every processed violation gets an evidence file of its own: the path
\* about to be written does not exist yet.
C28_EvidencePathsDistinct ==
    mpc = "save" => <<violations[vidx].type, now>> \notin evidence

\* C29: when the Fine Engine fails on a candidate, no evidence file has been
\* written for it and no notification has been dispatched for it.
C29_NoEvidenceWithoutClassification ==
    (mpc = "except" /\ pending = "ValueError") =>
        /\ <<violations[vidx].type, now>> \notin evidence
        /\ \A k \in 1..Len(notif_log) : notif_log[k] # vidx

(***************************************************************************)
(* Heuristic-mode properties                                               *)
(***************************************************************************)
\* the last call returned a candidate list
Ran == det_call.called /\ ~det_call.raised

SeqToSet(q) == { q[i] : i \in 1..Len(q) }

\* the actors of a frame: person entries above 0.3
Actors(f) == { d \in SeqToSet(f) : d.class_name = "person" /\ d.confidence > 3000 }

\* litter objects at an actor's feet with raw confidence above 0.5
LitterAtFeet(f, p) ==
    { d \in SeqToSet(f) :
        /\ d.class_name \in {"bottle", "cup", "bowl"}
        /\ d.confidence > 5000
        /\ d.center[2] > p.bbox[4] - 50
        /\ d.center[2] <= p.bbox[4] + 50
        /\ d.center[1] >= p.bbox[1] - 50
        /\ d.center[1] <= p.bbox[3] + 50 }

\* one of the last three stored frames holds an object of the same class less
\* than 100 px away on both axes
SeenBefore(obj, history) ==
    \E i \in 1..Len(history) :
        /\ i > Len(history) - 3
        /\ \E o \in SeqToSet(history[i]) :
              /\ o.class_name = obj.class_name
              /\ o.center[1] - obj.center[1] < 100 /\ obj.center[1] - o.center[1] < 100
              /\ o.center[2] - obj.center[2] < 100 /\ obj.center[2] - o.center[2] < 100

Boosted(raw) == Min(7500, (raw * 88) \div 100)
Plain(raw) == (raw * 80) \div 100

OfType(vs, t) == SelectSeq(vs, LAMBDA v : v.type = t)

\* the littering candidates a frame with one actor and one litter object must
\* give when the object's confidence is conf
LitteringAsExpected(conf) ==
    \A p \in Actors(det_call.all_detections) :
        \A o \in LitterAtFeet(det_call.all_detections, p) :
            (Cardinality(Actors(det_call.all_detections)) = 1
               /\ Cardinality(LitterAtFeet(det_call.all_detections, p)) = 1)
            => OfType(det_call.violations, "littering")
                  = IF conf[o] > 5000
                    THEN <<[type |-> "littering", confidence |-> conf[o], bbox |-> p.bbox]>>
                    ELSE <<>>

\* C11 as stated: the litter object is boosted exactly when none of the last
\* three stored frames holds it, for every history length, 0 and 1 included.
C11_BoostIffNotSeenBefore ==
    Ran => LitteringAsExpected(
              [o \in SeqToSet(det_call.all_detections) |->
                  IF ~SeenBefore(o, det_call.history_before)
                  THEN Boosted(o.confidence) ELSE Plain(o.confidence)])

\* C11 amended: the litter object is boosted exactly when at least two frames
\* are stored and none of the last three holds it; otherwise it keeps raw x 0.8.
C11_BoostIffTwoFramesAndNotSeen ==
    Ran => LitteringAsExpected(
              [o \in SeqToSet(det_call.all_detections) |->
                  IF Len(det_call.history_before) >= 2
                       /\ ~SeenBefore(o, det_call.history_before)
                  THEN Boosted(o.confidence) ELSE Plain(o.confidence)])

\* four frames stored, the oldest holds the bottle, the last three do not, and
\* the bottle of the current frame is boosted over the threshold
C11_Witness ==
    /\ Ran
    /\ Len(det_call.history_before) = 4
    /\ det_call.history_before[1] = <<BottleAtFeet(7000)>>
    /\ ~SeenBefore(BottleAtFeet(6000), det_call.history_before)
    /\ det_call.all_detections = <<Person, BottleAtFeet(6000)>>
    /\ det_call.violations =
          <<[type |-> "littering", confidence |-> 5280, bbox |-> Person.bbox]>>

Indicators == {"cell phone", "remote", "cigarette", "lighter", "cup", "bottle"}

Ceiling(class_name) ==
    CASE class_name = "cell phone" -> 7500
      [] class_name = "remote" -> 7000
      [] class_name \in {"cup", "bottle"} -> 6500
      [] OTHER -> 7500

\* the centre of o lies above the middle of p's box
InUpperHalf(o, p) == 2 * o.center[2] < p.bbox[2] + p.bbox[4]

\* C12: every smoking candidate of a heuristic call is above 0.45, carries the
\* box of an actor of the frame, and the frame holds an indicator in the upper
\* half of that actor's box whose class ceiling the confidence does not
\* exceed; indicators in the lower half give no candidate.
C12_SmokingConfidenceBounds ==
    Ran => \A i \in 1..Len(det_call.violations) :
              det_call.violations[i].type = "smoking" =>
                 /\ det_call.violations[i].confidence > 4500
                 /\ \E p \in Actors(det_call.all_detections) :
                      /\ det_call.violations[i].bbox = p.bbox
                      /\ \E o \in SeqToSet(det_call.all_detections) :
                           /\ o.class_name \in Indicators
                           /\ InUpperHalf(o, p)
                           /\ det_call.violations[i].confidence <= Ceiling(o.class_name)

\* a cup at 0.9 in the actor's face region: 0.675 is cut to the cup ceiling
C12_Witness ==
    /\ Ran
    /\ det_call.all_detections = <<Person, Detection("cup", 9000, 180, 150, 220, 190)>>
    /\ det_call.violations =
          <<[type |-> "smoking", confidence |-> 6500, bbox |-> Person.bbox]>>

\* C13: a heuristic call on a frame without a person entry of confidence 0.3
\* or more returns the empty list, whatever else the frame and the history hold.
C13_NoActorNoCandidates ==
    Ran =>
      ((\A d \in SeqToSet(det_call.all_detections) :
            d.class_name = "person" => d.confidence < 3000)
         => det_call.violations = <<>>)

\* a person at 0.25 with a phone at its face and a bottle at its feet, on a
\* detector that has stored frames
C13_Witness ==
    /\ Ran
    /\ det_call.history_before # <<>>
    /\ det_call.all_detections =
          <<Detection("person", 2500, 100, 100, 300, 500), PhoneUp(9000), BottleAtFeet(7000)>>
    /\ det_call.violations = <<>>

Malformed(d) == d.bbox[1] >= d.bbox[3] \/ d.bbox[2] >= d.bbox[4]

\* C18: detections with a malformed box (x1 >= x2 or y1 >= y2) are skipped:
\* a heuristic call returns what it would return without them.
C18_MalformedBoxesSkipped ==
    Ran => det_call.violations
              = _analyze_detections(
                    SelectSeq(det_call.all_detections, LAMBDA d : ~Malformed(d)),
                    det_call.history_before)

\* C19: on an empty history, a frame of one person above 0.3 and one cell phone
\* of confidence c centred in the upper half of the person's box gives one
\* smoking candidate with confidence min(0.75, 0.9 c) and the person's box when
\* that exceeds 0.45, and nothing otherwise.
C19_PersonWithPhone ==
    (Ran /\ det_call.history_before = <<>> /\ Len(det_call.all_detections) = 2) =>
      \A p, o \in SeqToSet(det_call.all_detections) :
         (/\ p.class_name = "person" /\ p.confidence > 3000
          /\ o.class_name = "cell phone"
          /\ o.center[1] >= p.bbox[1] /\ o.center[1] <= p.bbox[3]
          /\ o.center[2] >= p.bbox[2] /\ InUpperHalf(o, p))
         => det_call.violations
               = IF Min(7500, (9 * o.confidence) \div 10) > 4500
                 THEN <<[type |-> "smoking",
                         confidence |-> Min(7500, (9 * o.confidence) \div 10),
                         bbox |-> p.bbox]>>
                 ELSE <<>>

\* person 0.9 and phone 0.6 at the face: one smoking candidate at 0.54
C19_Witness ==
    /\ Ran
    /\ det_call.history_before = <<>>
    /\ det_call.all_detections = <<Person, PhoneUp(6000)>>
    /\ det_call.violations =
          <<[type |-> "smoking", confidence |-> 5400, bbox |-> Person.bbox]>>

\* the centre of o lies inside p's box
InsideBox(o, p) ==
    /\ o.center[1] >= p.bbox[1] /\ o.center[1] <= p.bbox[3]
    /\ o.center[2] >= p.bbox[2] /\ o.center[2] <= p.bbox[4]

\* the centre of o lies no more than 50 px outside p's box
WithinMargin(o, p) ==
    /\ o.center[1] >= p.bbox[1] - 50 /\ o.center[1] <= p.bbox[3] + 50
    /\ o.center[2] >= p.bbox[2] - 50 /\ o.center[2] <= p.bbox[4] + 50

\* every smoking candidate carries the box of an actor for which some
\* indicator of the frame satisfies region
SmokingOnlyWith(region(_, _)) ==
    Ran => \A i \in 1..Len(det_call.violations) :
              det_call.violations[i].type = "smoking" =>
                 \E p \in Actors(det_call.all_detections) :
                    /\ det_call.violations[i].bbox = p.bbox
                    /\ \E o \in SeqToSet(det_call.all_detections) :
                          /\ o.class_name \in Indicators
                          /\ region(o, p)

\* C24 as stated: a smoking candidate needs an indicator whose centre is inside
\* the actor's box and in its upper half.
C24_IndicatorInsideUpperHalf ==
    SmokingOnlyWith(LAMBDA o, p : InsideBox(o, p) /\ InUpperHalf(o, p))

\* C24 amended: a smoking candidate needs an indicator whose centre is no more
\* than 50 px outside the actor's box and above its vertical midline.
C24_IndicatorWithinMarginAboveMidline ==
    SmokingOnlyWith(LAMBDA o, p : WithinMargin(o, p) /\ InUpperHalf(o, p))

\* a phone 30 px to the right of the actor's box yields a smoking candidate
C24_Witness ==
    /\ Ran
    /\ det_call.all_detections =
          <<Person, Detection("cell phone", 9000, 310, 150, 350, 190)>>
    /\ det_call.violations =
          <<[type |-> "smoking", confidence |-> 7500, bbox |-> Person.bbox]>>

\* the smoking confidence of an indicator, from the table of its class
IndicatorConfidence(o) ==
    CASE o.class_name = "cell phone" -> Min(7500, (o.confidence * 90) \div 100)
      [] o.class_name = "remote" -> Min(7000, (o.confidence * 85) \div 100)
      [] o.class_name \in {"cup", "bottle"} -> Min(6500, (o.confidence * 75) \div 100)
      [] OTHER -> Min(7500, (o.confidence * 90) \div 100)

\* positions of the frame whose detection qualifies for actor p
Qualifying(f, p) ==
    { k \in 1..Len(f) :
        /\ f[k] # p
        /\ f[k].class_name \in Indicators
        /\ WithinMargin(f[k], p)
        /\ InUpperHalf(f[k], p)
        /\ IndicatorConfidence(f[k]) > 4500 }

\* C25: per actor at most one smoking candidate is emitted per frame; it exists
\* exactly when some indicator qualifies, and its confidence is that of the
\* first qualifying indicator in the order of the detection list, whatever
\* failed before it.
C25_FirstQualifyingIndicatorWins ==
    Ran => \A p \in Actors(det_call.all_detections) :
              LET mine == SelectSeq(det_call.violations,
                                    LAMBDA v : v.type = "smoking" /\ v.bbox = p.bbox)
                  q == Qualifying(det_call.all_detections, p)
              IN    /\ Len(mine) <= 1
                    /\ (q = {}) = (mine = <<>>)
                    /\ q # {} =>
                         mine[1].confidence =
                            IndicatorConfidence(
                               det_call.all_detections[CHOOSE k \in q : \A j \in q : k <= j])

\* a phone below the midline and a phone too weak come first; the cup that
\* follows gives the candidate, not the stronger phone after it
C25_Witness ==
    /\ Ran
    /\ Len(det_call.all_detections) = 5
    /\ det_call.violations =
          <<[type |-> "smoking", confidence |-> 6500, bbox |-> Person.bbox]>>

\* C30: the newly-appeared boost never lowers a littering confidence: a
\* littering candidate carries at least raw x 0.8 of its indicator.
C30_BoostNeverLowers ==
    Ran => \A p \in Actors(det_call.all_detections) :
              \A o \in LitterAtFeet(det_call.all_detections, p) :
                 \A i \in 1..Len(det_call.violations) :
                    (det_call.violations[i].type = "littering"
                       /\ Cardinality(LitterAtFeet(det_call.all_detections, p)) = 1)
                    => det_call.violations[i].confidence >= Plain(o.confidence)

(***************************************************************************)
(* Direct-mode properties                                                  *)
(***************************************************************************)
\* the detections of a recognised violation type, in order, as candidates
RecognisedInOrder(f) ==
    LET hits == SelectSeq(f, LAMBDA d : d.class_name \in {"smoking", "littering", "graffiti"})
    IN  [i \in 1..Len(hits) |->
            [type |-> hits[i].class_name, confidence |-> hits[i].confidence,
             bbox |-> hits[i].bbox]]

\* C14: in direct mode the candidates of a detection list are the in-order
\* sub-list of its recognised detections, on whatever history the detector
\* holds: the call that just returned gave it, and a further call on any list
\* would give it again.
C14_DirectModeIsAFunctionOfTheFrame ==
    using_custom_model =>
      /\ \A f \in CustomFrames :
            /\ ~detect_violations(TRUE, detection_history, f, FALSE).raised
            /\ detect_violations(TRUE, detection_history, f, FALSE).violations
                  = RecognisedInOrder(f)
      /\ Ran => det_call.violations
                   = RecognisedInOrder(detection_history[Len(detection_history)])

\* a call on the three-detection frame, made on a full history
C14_Witness ==
    /\ using_custom_model
    /\ Ran
    /\ det_call.evicted
    /\ Len(detection_history) = 10
    /\ Len(detection_history[10]) = 3
    /\ Len(det_call.violations) = 2

\* the last ten entries of h, oldest first
LastTen(h) == SubSeq(h, IF Len(h) > 10 THEN Len(h) - 9 ELSE 1, Len(h))

\* C23: starting from an empty buffer, every successful call puts the full
\* detection list of its frame at the end of detection_history and keeps the
\* last ten entries in call order, whether or not the frame had detections or
\* candidates; so after n such calls the buffer is the lists of the last
\* min(n, 10) calls, oldest first.
C23_HistoryIsLastTenFrames ==
    /\ [](det_call.called \/ detection_history = <<>>)
    /\ [][(det_call'.called /\ ~det_call'.raised)
             => /\ detection_history'
                     = LastTen(Append(detection_history, det_call'.all_detections))
                /\ Len(detection_history') = Min(Len(detection_history) + 1, 10)]_vars

\* a heuristic call on a frame without detections, on a full buffer: the empty
\* list is stored last and the oldest frame is gone
C23_Witness ==
    /\ ~using_custom_model
    /\ Ran
    /\ det_call.evicted
    /\ det_call.all_detections = <<>>
    /\ Len(detection_history) = 10
    /\ detection_history[10] = <<>>
    /\ detection_history[1] # <<>>

\* C17: a call whose model invocation fails raises to its caller after that
\* one invocation, returns no candidate list and leaves detection_history as it
\* found it.
C17_ModelFailurePropagates ==
    [][(det_call'.called /\ det_call'.raised)
          => /\ detection_history' = detection_history
             /\ det_call'.model_calls = 1
             /\ det_call'.violations = <<>>]_vars

\* a failed call on a detector holding a full history
C17_Witness ==
    /\ det_call.called
    /\ det_call.raised
    /\ Len(detection_history) = 10

(***************************************************************************)
(* BotHandler properties                                                   *)
(***************************************************************************)
\* best confidence among the candidates of type t
BestOf(vs, t) ==
    CHOOSE c \in { vs[i].confidence : i \in { k \in 1..Len(vs) : vs[k].type = t } } :
        \A j \in 1..Len(vs) : vs[j].type = t => vs[j].confidence <= c

TypesOf(vs) == { vs[i].type : i \in 1..Len(vs) }

\* C15: what handle_photo presents for a non-empty candidate list has at most
\* 3 entries of pairwise different types, each with the best confidence of its
\* type, in non-increasing order of confidence, and no type left out has a
\* better best confidence than a type presented.
C15_TopThreeByType ==
    bviolations # <<>> =>
      LET shown == Ordered(bviolations)
      IN  /\ Len(shown) <= 3
          /\ \A i, j \in 1..Len(shown) : i # j => shown[i].type # shown[j].type
          /\ \A i \in 1..Len(shown) :
                /\ shown[i].type \in TypesOf(bviolations)
                /\ shown[i].confidence = BestOf(bviolations, shown[i].type)
          /\ \A i, j \in 1..Len(shown) : i < j => shown[i].confidence >= shown[j].confidence
          /\ \A t \in TypesOf(bviolations) \ TypesOf(shown) :
                \A i \in 1..Len(shown) : BestOf(bviolations, t) <= shown[i].confidence

\* four candidates of three types, two of them smoking, reach the report
C15_Witness ==
    /\ bpc = "report"
    /\ Len(bviolations) = 4
    /\ Ordered(bviolations) =
          <<[type |-> "smoking", confidence |-> 9000],
            [type |-> "graffiti", confidence |-> 8000],
            [type |-> "littering", confidence |-> 7000]>>

Running == { w \in DOMAIN workers : workers[w].wpc \notin {"none", "done"} }

\* C22: detection_history holds at most 10 frames in every state, the states
\* inside a detect_violations call included.
C22_HistoryNeverOverTen == Len(detection_history) <= 10

\* calls that have appended their frame and not yet returned
Appended == { w \in DOMAIN workers : workers[w].wpc \in {"check", "pop"} }

\* C26: with k detect_violations calls overlapping on the shared detector,
\* detection_history never holds more than 10 + k frames (k counted as the
\* calls that have appended and not returned), and at most 10 once every call
\* has returned.
C26_HistoryBoundUnderOverlap ==
    /\ Len(detection_history) <= 10 + Cardinality(Appended)
    /\ Len(detection_history) <= 10 + MaxRequests
    /\ Running = {} => Len(detection_history) <= 10

\* two calls overlap on a full history and both have appended: 12 frames
C26_Witness ==
    /\ Cardinality(Appended) = 2
    /\ Len(detection_history) = 12

\* C3: no two executions of detect_violations on the detector shared by the
\* bot's requests overlap: at any moment at most one is between its start and
\* its end, a request starting after an earlier one timed out included.
C3_NoOverlappingDetections == Cardinality(Running) <= 1

\* the handler of the current request has returned
Returned == bpc = "idle" /\ handled > 0

Count(log, events) == Cardinality({ i \in 1..Len(log) : log[i] \in events })
GetFileEvents == {"get_file_ok", "get_file_fail", "get_file_err"}
DownloadEvents == {"download_ok", "download_fail", "download_err"}

\* log[i] is an attempt of a step that was attempted before
ReAttempt(log, i, events) ==
    /\ log[i] \in events
    /\ \E j \in 1..(i - 1) : log[j] \in events

=============================================================================
